---- MODULE Spec2Model ----
(***************************************************************************)
(* The Direct Method off-policy estimator                                  *)
(* (rllib/offline/estimators/direct_method.py): construction, estimate     *)
(* and train, over exact rational arithmetic with an explicit NaN.         *)
(***************************************************************************)
EXTENDS Integers, Sequences, FiniteSets, TLC

\* ------------------------------------------------------------------ bounds

\* Longest batch (number of transitions) the caller builds.
MaxLen == 3

\* --------------------------------------------------------- float arithmetic
\* A float is an exact rational n/d in lowest terms (d > 0), or NaN, or an
\* infinity (k = "inf", its sign in n).

RECURSIVE Gcd(_, _)
Gcd(a, b) == IF b = 0 THEN a ELSE Gcd(b, a % b)

Abs(x) == IF x < 0 THEN -x ELSE x

NaN == [k |-> "nan", n |-> 0, d |-> 1]

Inf(sign) == [k |-> "inf", n |-> sign, d |-> 1]

R(n, d) ==
    LET s == IF d < 0 THEN -1 ELSE 1
        g == Gcd(Abs(n), Abs(d))
    IN  [k |-> "num", n |-> (s * n) \div g, d |-> (s * d) \div g]

I(n) == R(n, 1)

IsNum(a) == a.k = "num"

FAdd(a, b) ==
    IF IsNum(a) /\ IsNum(b) THEN R(a.n * b.d + b.n * a.d, a.d * b.d)
    ELSE IF a.k = "nan" \/ b.k = "nan" THEN NaN
    ELSE IF a.k = "inf" /\ b.k = "inf" /\ a.n # b.n THEN NaN
    ELSE IF a.k = "inf" THEN a ELSE b

FNeg(a) == IF a.k = "nan" THEN NaN ELSE [a EXCEPT !.n = -a.n]

FSub(a, b) == FAdd(a, FNeg(b))

Sign(x) == IF x < 0 THEN -1 ELSE IF x = 0 THEN 0 ELSE 1

FMul(a, b) ==
    IF IsNum(a) /\ IsNum(b) THEN R(a.n * b.n, a.d * b.d)
    ELSE IF a.k = "nan" \/ b.k = "nan" \/ a.n = 0 \/ b.n = 0 THEN NaN
    ELSE Inf(Sign(a.n) * Sign(b.n))

\* numpy float64 true division: x/0 is an infinity, 0/0 and anything with NaN
\* is NaN.
FDiv(a, b) ==
    IF IsNum(a) /\ IsNum(b)
    THEN IF b.n # 0 THEN R(a.n * b.d, a.d * b.n)
         ELSE IF a.n = 0 THEN NaN ELSE Inf(Sign(a.n))
    ELSE IF a.k = "nan" \/ b.k = "nan" THEN NaN
    ELSE IF a.k = "inf" /\ b.k = "inf" THEN NaN
    ELSE IF a.k = "inf" THEN Inf(a.n * (IF b.n < 0 THEN -1 ELSE 1))
    ELSE I(0)

\* n1/d1 < n2/d2 for d1, d2 > 0, by comparing continued-fraction expansions
\* (no cross products, so nothing overflows against 1e-8).
RECURSIVE LessFrac(_, _, _, _)
LessFrac(n1, d1, n2, d2) ==
    LET q1 == n1 \div d1
        q2 == n2 \div d2
        r1 == n1 % d1
        r2 == n2 % d2
    IN  IF q1 # q2 THEN q1 < q2
        ELSE IF r2 = 0 THEN FALSE
        ELSE IF r1 = 0 THEN TRUE
        ELSE LessFrac(d2, r2, d1, r1)

\* IEEE comparison: every comparison with NaN is false.
FLess(a, b) ==
    IF a.k = "nan" \/ b.k = "nan" THEN FALSE
    ELSE IF a.k = "inf" THEN a.n < 0 /\ ~(b.k = "inf" /\ b.n < 0)
    ELSE IF b.k = "inf" THEN b.n > 0
    ELSE LessFrac(a.n, a.d, b.n, b.d)

\* Python's builtin max(a, b): b only when b > a, else a (so max(nan, x) is nan).
PyMax(a, b) == IF FLess(a, b) THEN b ELSE a

\* x ** t for an integer t >= 0; Python gives 0.0 ** 0 == 1.0.
RECURSIVE FPow(_, _)
FPow(x, t) == IF t = 0 THEN I(1) ELSE FMul(x, FPow(x, t - 1))

RECURSIVE FSum(_)
FSum(xs) == IF xs = <<>> THEN I(0) ELSE FAdd(xs[1], FSum(Tail(xs)))

\* numpy.mean of a list: sum / len; NaN for the empty list (0.0 / 0).
NpMean(xs) == FDiv(FSum(xs), I(Len(xs)))

IsSquare(m) == \E r \in 0..m : r * r = m

IntSqrt(m) == CHOOSE r \in 0..m : r * r = m

\* The square root of a float >= 0: exact when it is rational, else kept as
\* the surd of its argument (k = "sqrt").
FSqrt(a) ==
    IF ~IsNum(a) THEN a
    ELSE IF IsSquare(a.n) /\ IsSquare(a.d) THEN R(IntSqrt(a.n), IntSqrt(a.d))
    ELSE [k |-> "sqrt", n |-> a.n, d |-> a.d]

\* numpy.std of a list: population standard deviation, NaN for the empty list.
NpStd(xs) ==
    LET m == NpMean(xs)
        sq == [i \in 1..Len(xs) |-> FMul(FSub(xs[i], m), FSub(xs[i], m))]
    IN  FSqrt(NpMean(sq))

\* ------------------------------------------------------------- the batches
\* A transition carries a reward and the last-step flag; a SampleBatch is a
\* sequence of transitions plus whether it has the action_prob column; a raw
\* batch is a SampleBatch or a MultiAgentBatch wrapping one.

Rewards == {-1, 1, 2}

Transitions == [rewards : Rewards, dones : BOOLEAN]

SampleBatch(rows, ap) == [rows |-> rows, action_prob |-> ap]

RawBatch(ma, sb) == [multi_agent |-> ma, sample |-> sb]

\* OffPolicyEstimator.convert_ma_batch_to_sample_batch: the flat SampleBatch
\* of a raw batch.
convert_ma_batch_to_sample_batch(batch) == batch.sample

\* OffPolicyEstimator.check_action_prob_in_batch: TRUE when the check passes.
check_action_prob_in_batch(sb) == sb.action_prob

\* SampleBatch.split_by_episode: scan in order, cut right after every
\* terminal-flagged transition, and yield what remains at the end.
RECURSIVE SplitScan(_, _, _, _)
SplitScan(sb, i, start, acc) ==
    IF i > Len(sb.rows)
    THEN IF start <= Len(sb.rows)
         THEN Append(acc, SampleBatch(SubSeq(sb.rows, start, Len(sb.rows)), sb.action_prob))
         ELSE acc
    ELSE IF sb.rows[i].dones
         THEN SplitScan(sb, i + 1, i + 1,
                        Append(acc, SampleBatch(SubSeq(sb.rows, start, i), sb.action_prob)))
         ELSE SplitScan(sb, i + 1, start, acc)

split_by_episode(sb) == SplitScan(sb, 1, 1, <<>>)

\* SampleBatch.__getitem__ with the slice lo:hi (0-based, hi exclusive).
Slice(sb, lo, hi) ==
    SampleBatch(SubSeq(sb.rows, lo + 1, IF hi < Len(sb.rows) THEN hi ELSE Len(sb.rows)),
                sb.action_prob)

\* SampleBatch.count
Count(sb) == Len(sb.rows)

\* --------------------------------------------------------- the value model
\* The Q-model is consumed through train and estimate_v only.  Its
\* parameters are a bias and a slope on the reward column of the step it is
\* shown; a fresh model has both 0.

FQETorchModel == "FQETorchModel"

CustomModel == "CustomModel"

NewModel(cls, kwargs) ==
    [cls |-> cls, kwargs |-> kwargs, trained |-> FALSE, bias |-> 0, slope |-> 0]

RECURSIVE RewardSum(_)
RewardSum(rows) == IF rows = <<>> THEN 0 ELSE rows[1].rewards + RewardSum(Tail(rows))

\* A tensor holding one value.
Tensor(x) == [tensor |-> <<x>>]

\* model.estimate_v(step): a one-element tensor, the value of the batch it is given.
estimate_v(model, sb) == Tensor(I(model.bias + model.slope * RewardSum(sb.rows)))

\* The parameters after one more fit.
Fit(model) == [model EXCEPT !.trained = TRUE, !.bias = 2, !.slope = 1 - model.slope]

\* The losses model.train reports: one per transition of the batch it is given.
Losses(model, sb) == [i \in 1..Len(sb.rows) |-> I(2 * Abs(sb.rows[i].rewards - model.bias))]

TrainOutcomes == {"ok", "raise_before_update", "raise_after_update"}

\* model.train(batch) under one outcome: what it raised, the losses it
\* returned and the model it leaves.
model_train(model, sb, outcome) ==
    [raised |-> IF outcome = "ok" THEN "none" ELSE "ModelFailure",
     losses |-> IF outcome = "ok" THEN Losses(model, sb) ELSE <<>>,
     model  |-> IF outcome = "raise_before_update" THEN model ELSE Fit(model)]

\* ------------------------------------------------------------ DirectMethod

Nothing == [none |-> TRUE]

NoneConfig == [is_none |-> TRUE, items |-> <<>>]

Mapping(items) == [is_none |-> FALSE, items |-> items]

\* dict.pop(key, default): the value and the mapping without the key.
Pop(items, key, default) ==
    [value |-> IF key \in DOMAIN items THEN items[key] ELSE default,
     items |-> [x \in DOMAIN items \ {key} |-> items[x]]]

\* DirectMethod.__init__(policy, gamma, q_model_config): the estimator's
\* gamma and model, and the caller's mapping as the constructor leaves it.
\* `q_model_config or {}` is the caller's own dict unless that is None or empty.
DirectMethodInit(gamma, q_model_config) ==
    LET fresh  == q_model_config.is_none \/ DOMAIN q_model_config.items = {}
        local  == IF fresh THEN <<>> ELSE q_model_config.items
        popped == Pop(local, "type", FQETorchModel)
    IN  [gamma |-> gamma,
         model |-> NewModel(popped.value, popped.items),
         q_model_config |-> IF fresh THEN q_model_config ELSE Mapping(popped.items)]

\* A discount loop that weights rewards[t] by gamma ** (t + 1).
RECURSIVE DiscountLoopShifted(_, _, _, _)
DiscountLoopShifted(episode, gamma, t, v_behavior) ==
    IF t >= Len(episode.rows) THEN v_behavior
    ELSE DiscountLoopShifted(episode, gamma, t + 1,
                             FAdd(v_behavior,
                                  FMul(I(episode.rows[t + 1].rewards), FPow(gamma, t + 1))))

\* for t in range(episode.count): v_behavior += rewards[t] * self.gamma ** t
RECURSIVE DiscountLoop(_, _, _, _)
DiscountLoop(episode, gamma, t, v_behavior) ==
    IF t >= Count(episode) THEN v_behavior
    ELSE DiscountLoop(episode, gamma, t + 1,
                      FAdd(v_behavior, FMul(I(episode.rows[t + 1].rewards), FPow(gamma, t))))

\* The first transition as a single-step batch: episode[0:1].
InitStep(episode) == Slice(episode, 0, 1)

\* convert_to_numpy(v_target).item(): the scalar a one-element tensor holds.
Item(t) == t.tensor[1]

\* The body of the loop over episodes, for one episode.
EpisodeEstimate(gamma, model, episode) ==
    [episode    |-> episode,
     v_behavior |-> DiscountLoop(episode, gamma, 0, I(0)),
     init_step  |-> InitStep(episode),
     v_target   |-> Item(estimate_v(model, InitStep(episode)))]

\* A loop that leaves out a trailing episode with no terminal flag.
EpisodeLoopSkipsTail(gamma, model, episodes) ==
    LET n    == Len(episodes)
        keep == IF n > 0 /\ ~episodes[n].rows[Len(episodes[n].rows)].dones THEN n - 1 ELSE n
    IN  [i \in 1..keep |-> EpisodeEstimate(gamma, model, episodes[i])]

\* for episode in batch.split_by_episode(): ... append the two estimates
EpisodeLoop(gamma, model, episodes) ==
    [i \in 1..Len(episodes) |-> EpisodeEstimate(gamma, model, episodes[i])]

EPS == R(1, 100000000)

\* estimates["v_gain"] = estimates["v_target"] / max(estimates["v_behavior"], 1e-8)
Gain(v_target, v_behavior) == FDiv(v_target, PyMax(v_behavior, EPS))

\* Estimates whose gain and delta are averaged per-episode ratios and differences.
EstimatesPerEpisode(vb, vt) ==
    [v_behavior     |-> NpMean(vb),
     v_behavior_std |-> NpStd(vb),
     v_target       |-> NpMean(vt),
     v_target_std   |-> NpStd(vt),
     v_gain         |-> NpMean([i \in 1..Len(vb) |-> Gain(vt[i], vb[i])]),
     v_delta        |-> NpMean([i \in 1..Len(vb) |-> FSub(vt[i], vb[i])])]

\* The estimates dict built after the loop.
Estimates(vb, vt) ==
    [v_behavior     |-> NpMean(vb),
     v_behavior_std |-> NpStd(vb),
     v_target       |-> NpMean(vt),
     v_target_std   |-> NpStd(vt),
     v_gain         |-> Gain(NpMean(vt), NpMean(vb)),
     v_delta        |-> FSub(NpMean(vt), NpMean(vb))]

\* One call: the operation, what it raised and returned, the calls it made
\* in order, and the model and the caller's batch as it leaves them.
Call(op, raised, ret, trace, episodes, v_calls, per_episode, train_calls, losses, model, batch) ==
    [op |-> op, raised |-> raised, ret |-> ret, trace |-> trace, episodes |-> episodes,
     v_calls |-> v_calls, per_episode |-> per_episode, train_calls |-> train_calls,
     losses |-> losses, model |-> model, batch |-> batch]

EstimateTrace(n) ==
    <<"convert_ma_batch_to_sample_batch", "check_action_prob_in_batch", "split_by_episode">>
      \o [i \in 1..n |-> "estimate_v"]

\* An estimate that runs the loop first and checks the action_prob column last.
EstimateChecksLate(gamma, model, batch) ==
    LET sb  == convert_ma_batch_to_sample_batch(batch)
        per == EpisodeLoop(gamma, model, split_by_episode(sb))
        vb  == [i \in 1..Len(per) |-> per[i].v_behavior]
        vt  == [i \in 1..Len(per) |-> per[i].v_target]
        log == <<"convert_ma_batch_to_sample_batch", "split_by_episode">>
                 \o [i \in 1..Len(per) |-> "estimate_v"] \o <<"check_action_prob_in_batch">>
    IN  Call("estimate",
             IF check_action_prob_in_batch(sb) THEN "none" ELSE "MissingFieldError",
             IF check_action_prob_in_batch(sb) THEN Estimates(vb, vt) ELSE Nothing,
             log, [i \in 1..Len(per) |-> per[i].episode],
             [i \in 1..Len(per) |-> per[i].init_step], per, <<>>, <<>>, model, batch)

\* An estimate that also fits the model on the batch it is given.
EstimateFitsModel(gamma, model, batch) ==
    LET sb == convert_ma_batch_to_sample_batch(batch)
    IN  IF ~check_action_prob_in_batch(sb)
        THEN Call("estimate", "MissingFieldError", Nothing,
                  <<"convert_ma_batch_to_sample_batch", "check_action_prob_in_batch">>,
                  <<>>, <<>>, <<>>, <<>>, <<>>, model, batch)
        ELSE LET per == EpisodeLoop(gamma, model, split_by_episode(sb))
                 vb  == [i \in 1..Len(per) |-> per[i].v_behavior]
                 vt  == [i \in 1..Len(per) |-> per[i].v_target]
             IN  Call("estimate", "none", Estimates(vb, vt), EstimateTrace(Len(per)),
                      [i \in 1..Len(per) |-> per[i].episode],
                      [i \in 1..Len(per) |-> per[i].init_step], per,
                      <<>>, <<>>, Fit(model), batch)

\* DirectMethod.estimate(batch)
estimate(gamma, model, batch) ==
    LET sb == convert_ma_batch_to_sample_batch(batch)
    IN  IF ~check_action_prob_in_batch(sb)
        THEN Call("estimate", "MissingFieldError", Nothing,
                  <<"convert_ma_batch_to_sample_batch", "check_action_prob_in_batch">>,
                  <<>>, <<>>, <<>>, <<>>, <<>>, model, batch)
        ELSE LET per == EpisodeLoop(gamma, model, split_by_episode(sb))
                 vb  == [i \in 1..Len(per) |-> per[i].v_behavior]
                 vt  == [i \in 1..Len(per) |-> per[i].v_target]
             IN  Call("estimate", "none", Estimates(vb, vt), EstimateTrace(Len(per)),
                      [i \in 1..Len(per) |-> per[i].episode],
                      [i \in 1..Len(per) |-> per[i].init_step], per,
                      <<>>, <<>>, model, batch)

\* A train that checks the action_prob column before it calls the model.
TrainGuarded(model, batch, outcome) ==
    LET sb == convert_ma_batch_to_sample_batch(batch)
        t  == model_train(model, sb, outcome)
    IN  IF ~check_action_prob_in_batch(sb)
        THEN Call("train", "MissingFieldError", Nothing,
                  <<"convert_ma_batch_to_sample_batch", "check_action_prob_in_batch">>,
                  <<>>, <<>>, <<>>, <<>>, <<>>, model, batch)
        ELSE Call("train", t.raised,
                  IF t.raised = "none" THEN [loss |-> NpMean(t.losses)] ELSE Nothing,
                  <<"convert_ma_batch_to_sample_batch", "check_action_prob_in_batch",
                    "model.train">>,
                  <<>>, <<>>, <<>>, <<sb>>, t.losses, t.model, batch)

\* A train that returns the sum of the losses.
TrainSumsLosses(model, batch, outcome) ==
    LET sb == convert_ma_batch_to_sample_batch(batch)
        t  == model_train(model, sb, outcome)
    IN  Call("train", t.raised,
             IF t.raised = "none" THEN [loss |-> FSum(t.losses)] ELSE Nothing,
             <<"convert_ma_batch_to_sample_batch", "model.train">>,
             <<>>, <<>>, <<>>, <<sb>>, t.losses, t.model, batch)

\* DirectMethod.train(batch), for one outcome of the model's train.
train(model, batch, outcome) ==
    LET sb == convert_ma_batch_to_sample_batch(batch)
        t  == model_train(model, sb, outcome)
    IN  Call("train", t.raised,
             IF t.raised = "none" THEN [loss |-> NpMean(t.losses)] ELSE Nothing,
             <<"convert_ma_batch_to_sample_batch", "model.train">>,
             <<>>, <<>>, <<>>, <<sb>>, t.losses, t.model, batch)

\* ------------------------------------------------------------------- state

VARIABLES
    q_model_config,  \* the caller's configuration mapping (or None)
    given,           \* that mapping as the caller wrote it (history)
    gamma,           \* self.gamma
    model,           \* self.model
    batch,           \* the batch the caller holds
    call             \* the last call and what it did

vars == <<q_model_config, given, gamma, model, batch, call>>

Gammas == {R(0, 1), R(1, 2), R(1, 1)}

Configs ==
    {NoneConfig, Mapping(<<>>), Mapping("type" :> CustomModel),
     Mapping("type" :> CustomModel @@ "n_iters" :> 2), Mapping("n_iters" :> 2)}

EmptyBatch(ma, ap) == RawBatch(ma, SampleBatch(<<>>, ap))

InitWith(configs, batches) ==
    /\ q_model_config \in configs
    /\ given = q_model_config
    /\ \E g \in Gammas :
         /\ gamma = g
         /\ model = DirectMethodInit(g, NoneConfig).model
    /\ batch \in batches
    /\ call = Call("init", "none", Nothing, <<>>, <<>>, <<>>, <<>>, <<>>, <<>>, model, batch)

\* The caller constructs an estimator, passing its mapping.
Construct ==
    \E g \in Gammas :
      LET made == DirectMethodInit(g, q_model_config)
      IN  /\ gamma' = made.gamma
          /\ model' = made.model
          /\ q_model_config' = made.q_model_config
          /\ call' = Call("construct", "none", Nothing, <<>>, <<>>, <<>>, <<>>, <<>>, <<>>,
                          made.model, batch)
          /\ UNCHANGED <<given, batch>>

\* The caller starts a new batch, flat or multi-agent, with or without action_prob.
NewBatch ==
    \E ma \in BOOLEAN, ap \in BOOLEAN :
      /\ batch' = EmptyBatch(ma, ap)
      /\ call' = Call("collect", "none", Nothing, <<>>, <<>>, <<>>, <<>>, <<>>, <<>>,
                      model, batch')
      /\ UNCHANGED <<q_model_config, given, gamma, model>>

\* The caller logs one more transition into its batch.
Log ==
    /\ Len(batch.sample.rows) < MaxLen
    /\ \E tr \in Transitions :
         /\ batch' = [batch EXCEPT !.sample.rows = Append(@, tr)]
         /\ call' = Call("collect", "none", Nothing, <<>>, <<>>, <<>>, <<>>, <<>>, <<>>,
                         model, batch')
    /\ UNCHANGED <<q_model_config, given, gamma, model>>

Estimate ==
    /\ call' = estimate(gamma, model, batch)
    /\ model' = call'.model
    /\ batch' = call'.batch
    /\ UNCHANGED <<q_model_config, given, gamma>>

Train ==
    \E outcome \in TrainOutcomes :
      /\ call' = train(model, batch, outcome)
      /\ model' = call'.model
      /\ batch' = call'.batch
      /\ UNCHANGED <<q_model_config, given, gamma>>

Init == InitWith({NoneConfig}, {EmptyBatch(FALSE, TRUE)})

Next == Construct \/ NewBatch \/ Log \/ Estimate \/ Train

Spec == Init /\ [][Next]_vars

\* Construction from every kind of mapping, over the batches of at most one
\* transition.
CtorBatches ==
    {EmptyBatch(ma, ap) : ma \in BOOLEAN, ap \in BOOLEAN}
      \cup {RawBatch(FALSE, SampleBatch(<<tr>>, TRUE)) : tr \in Transitions}

InitCtor == InitWith(Configs, CtorBatches)

NextCtor == Construct \/ Estimate \/ Train

SpecCtor == InitCtor /\ [][NextCtor]_vars

\* ------------------------------------------------------------ properties

\* The caller's batch in flat form.
Flat == convert_ma_batch_to_sample_batch(batch)

EstimateReturned == call.op = "estimate" /\ call.raised = "none"

\* max(x, 1e-8) by cases.
Floor8(x) == IF FLess(EPS, x) THEN x ELSE EPS

\* C1: estimate on a batch that splits into zero episodes fails with
\* EmptyBatchError before any mean, std or division; it never returns a result
\* whose v_behavior, v_target, v_gain or v_delta is NaN.
C1_EmptyBatchRaises ==
    (call.op = "estimate" /\ check_action_prob_in_batch(Flat)
       /\ Len(split_by_episode(Flat)) = 0)
      => /\ call.raised = "EmptyBatchError"
         /\ call.ret = Nothing

\* C2: every estimate call normalizes the batch, then checks the action_prob
\* field; when the field is absent the call fails with MissingFieldError
\* before any episode is split, any return accumulated or estimate_v called.
C2_GuardFirst ==
    call.op = "estimate"
      => /\ Len(call.trace) >= 2
         /\ call.trace[1] = "convert_ma_batch_to_sample_batch"
         /\ call.trace[2] = "check_action_prob_in_batch"
         /\ ~Flat.action_prob
              => /\ call.raised = "MissingFieldError"
                 /\ Len(call.trace) = 2
                 /\ call.episodes = <<>>
                 /\ call.per_episode = <<>>
                 /\ call.v_calls = <<>>
                 /\ call.ret = Nothing

C2_Witness ==
    /\ call.op = "estimate"
    /\ call.raised = "MissingFieldError"
    /\ batch.multi_agent
    /\ Len(Flat.rows) >= 2

\* C3: an estimate call, whether it returns or fails, leaves the model and
\* the caller's batch as they were.
C3_EstimateReadOnly ==
    [][call'.op = "estimate" => (model' = model /\ batch' = batch)]_vars

C3_Witness ==
    /\ EstimateReturned
    /\ model.trained
    /\ model.slope = 1
    /\ Len(call.v_calls) >= 2

\* C4 as stated: a train call on a batch without the action_prob field fails
\* with MissingFieldError and never reaches the model's train.
C4_TrainGuarded ==
    (call.op = "train" /\ ~Flat.action_prob)
      => /\ call.raised = "MissingFieldError"
         /\ call.train_calls = <<>>

\* C4 amended: train normalizes the batch and makes no action_prob check; on
\* a batch without the field it never raises MissingFieldError and calls the
\* model's train exactly once, on the normalized batch.
C4_TrainUnguarded ==
    (call.op = "train" /\ ~Flat.action_prob)
      => /\ call.raised # "MissingFieldError"
         /\ call.trace = <<"convert_ma_batch_to_sample_batch", "model.train">>
         /\ call.train_calls = <<Flat>>

C4_Witness ==
    /\ call.op = "train"
    /\ ~Flat.action_prob
    /\ call.raised = "none"
    /\ model.trained
    /\ Len(Flat.rows) >= 1

\* C5: for the means estimate produces, v_gain = v_target / max(v_behavior,
\* 1e-8); for v_behavior <= 0 that is v_target / 1e-8; the denominator is
\* positive and v_gain is finite.
C5_GainFinite ==
    EstimateReturned
      => LET r == call.ret
         IN  /\ r.v_gain = FDiv(r.v_target, Floor8(r.v_behavior))
             /\ FLess(I(0), Floor8(r.v_behavior))
             /\ ~FLess(I(0), r.v_behavior) => r.v_gain = FDiv(r.v_target, EPS)
             /\ IsNum(r.v_gain)

\* sum over t of reward[t] * g^t, in Horner form.
RECURSIVE Horner(_, _)
Horner(rows, g) ==
    IF rows = <<>> THEN I(0) ELSE FAdd(I(rows[1].rewards), FMul(g, Horner(Tail(rows), g)))

\* C6: the behavior return of every episode is the sum over t of
\* reward[t] * gamma^t: the plain reward sum for gamma = 1, reward[0] alone
\* for gamma = 0.
C6_BehaviorReturn ==
    EstimateReturned
      => \A i \in 1..Len(call.per_episode) :
           LET e    == call.per_episode[i]
               rows == e.episode.rows
           IN  Len(rows) >= 1
                 => /\ e.v_behavior = Horner(rows, gamma)
                    /\ gamma = I(1) => e.v_behavior = I(RewardSum(rows))
                    /\ gamma = I(0) => e.v_behavior = I(rows[1].rewards)

C6_Witness ==
    /\ EstimateReturned
    /\ gamma = I(0)
    /\ \E i \in 1..Len(call.per_episode) :
         /\ Len(call.per_episode[i].episode.rows) >= 2
         /\ call.per_episode[i].v_behavior = I(call.per_episode[i].episode.rows[1].rewards)

Terminals(rows) == Cardinality({i \in 1..Len(rows) : rows[i].dones})

RECURSIVE ConcatRows(_)
ConcatRows(eps) == IF eps = <<>> THEN <<>> ELSE eps[1].rows \o ConcatRows(Tail(eps))

\* C7: over a flat batch with k terminal flags estimate iterates k episodes
\* when no transition follows the last flag (none at all for the empty
\* batch) and k + 1 otherwise; every episode has count >= 1, ends at a
\* terminal flag or at the end of the batch, and the episodes concatenated
\* in order are the batch.
C7_EpisodeSplit ==
    EstimateReturned
      => LET rows == Flat.rows
             eps  == call.episodes
             k    == Terminals(rows)
         IN  /\ Len(eps) = IF rows = <<>> \/ rows[Len(rows)].dones THEN k ELSE k + 1
             /\ \A i \in 1..Len(eps) : Len(eps[i].rows) >= 1
             /\ ConcatRows(eps) = rows
             /\ (k = 0 /\ rows # <<>>) => eps = <<Flat>>
             /\ \A i \in 1..Len(eps) :
                  /\ \A j \in 1..(Len(eps[i].rows) - 1) : ~eps[i].rows[j].dones
                  /\ i < Len(eps) => eps[i].rows[Len(eps[i].rows)].dones

C7_Witness ==
    /\ EstimateReturned
    /\ Len(Flat.rows) = 3
    /\ Terminals(Flat.rows) = 1
    /\ ~Flat.rows[3].dones
    /\ Len(call.episodes) = 2

ExampleBatch ==
    /\ Len(Flat.rows) = 3
    /\ [i \in 1..3 |-> Flat.rows[i].rewards] = <<1, 1, 2>>
    /\ ~Flat.rows[1].dones
    /\ Flat.rows[2].dones
    /\ gamma = R(1, 2)
    /\ model.bias = 2
    /\ model.slope = 0

\* C8: estimate_v is called once per episode, in episode order, on the
\* episode's first transition alone; v_target and v_behavior are the means
\* of the per-episode values, and v_gain and v_delta come from the two
\* means.  Rewards [1, 1] and [2], gamma 0.5, a model answering 2: 1.75, 2,
\* std 0, delta 0.25, gain 2 / 1.75.
C8_PerEpisodeThenMeans ==
    EstimateReturned
      => LET eps == call.episodes
             k   == Len(eps)
             r   == call.ret
         IN  /\ Len(call.v_calls) = k
             /\ Len(call.per_episode) = k
             /\ Cardinality({j \in 1..Len(call.trace) : call.trace[j] = "estimate_v"}) = k
             /\ \A i \in 1..k :
                  /\ call.v_calls[i] = SampleBatch(<<eps[i].rows[1]>>, eps[i].action_prob)
                  /\ Tensor(call.per_episode[i].v_target) = estimate_v(model, call.v_calls[i])
             /\ k >= 1
                  => /\ FMul(r.v_target, I(k))
                          = FSum([i \in 1..k |-> call.per_episode[i].v_target])
                     /\ FMul(r.v_behavior, I(k))
                          = FSum([i \in 1..k |-> call.per_episode[i].v_behavior])
                     /\ r.v_delta = FSub(r.v_target, r.v_behavior)
                     /\ r.v_gain = FDiv(r.v_target, Floor8(r.v_behavior))
             /\ ExampleBatch
                  => /\ r.v_behavior = R(7, 4)
                     /\ r.v_target = I(2)
                     /\ r.v_target_std = I(0)
                     /\ r.v_delta = R(1, 4)
                     /\ r.v_gain = R(8, 7)

C8_Witness == EstimateReturned /\ ExampleBatch /\ call.ret.v_gain = R(8, 7)

\* C9: train calls the model's train exactly once, on the whole normalized
\* batch, and returns {"loss": mean of the losses the model returned}
\* ([4, 2] gives 3, one loss gives itself); a failure of the model's train
\* reaches the caller as it is, with no second call.
C9_TrainDelegates ==
    call.op = "train"
      => /\ call.trace = <<"convert_ma_batch_to_sample_batch", "model.train">>
         /\ call.train_calls = <<Flat>>
         /\ call.raised \in {"none", "ModelFailure"}
         /\ call.raised = "ModelFailure" => call.ret = Nothing
         /\ call.raised = "none"
              => /\ DOMAIN call.ret = {"loss"}
                 /\ Len(call.losses) >= 1
                      => FMul(call.ret.loss, I(Len(call.losses))) = FSum(call.losses)
                 /\ Len(call.losses) = 1 => call.ret.loss = call.losses[1]
                 /\ call.losses = <<I(4), I(2)>> => call.ret.loss = I(3)

C9_Witness ==
    /\ call.op = "train"
    /\ call.raised = "none"
    /\ call.losses = <<I(4), I(2)>>
    /\ call.ret.loss = I(3)

\* C10: constructing estimators leaves the caller's mapping as the caller
\* wrote it, and every estimator built from a mapping with a `type` key owns
\* a model of that type.
C10_ConfigKept ==
    "type" \in DOMAIN given.items
      => /\ q_model_config = given
         /\ call.op = "construct" => model.cls = given.items["type"]

====
